---- MODULE Spec2Model ----
(***************************************************************************)
(* Model of src/scraper.py: the chapter loop of main() and the page        *)
(* acquisition of get_chapter_content().                                   *)
(*                                                                         *)
(* Text is a sequence of tokens.  A token is a word ("Hello"), a blank     *)
(* (" " or "\n"), or one of the two signature strings of the site.  The    *)
(* content region of a page is a sequence of nodes: text nodes and img     *)
(* elements.  The browser and the HTTP client are the environment: every   *)
(* call into them returns one of the outcomes the call can have.           *)
(***************************************************************************)
EXTENDS Integers, Sequences, FiniteSets, TLC

\* ---------------------------------------------------------------- bounds
NumChapters == 2
MaxPages == 2
MaxRuns == 2
MaxLinks == 3
MaxVolumes == 2

\* ------------------------------------------------------------- constants
MAX_PAGE_RELOADS == 3
MAX_RETRIES == 3
REQUEST_DELAY_SECONDS == 10
MIN_CHAPTER_DELAY == 2

MOBILE_WARNING_TEXT == "MOBILE_WARNING"

LOAD_FAILURE_TEXT == "LOAD_FAILURE"

NL == "\n"

None == "None"

\* ---------------------------------------------------------------- text
\* str.isspace() on a token
IsSpace(t) == t \in {" ", NL}

RECURSIVE LStrip(_)
LStrip(s) == IF s = <<>> THEN <<>>
             ELSE IF IsSpace(Head(s)) THEN LStrip(Tail(s)) ELSE s

RECURSIVE RStrip(_)
RStrip(s) == IF s = <<>> THEN <<>>
             ELSE IF IsSpace(s[Len(s)]) THEN RStrip(SubSeq(s, 1, Len(s) - 1)) ELSE s

\* str.strip()
Strip(s) == RStrip(LStrip(s))

\* str.replace(tok, "")
RECURSIVE Replace(_, _)
Replace(s, tok) == IF s = <<>> THEN <<>>
                   ELSE IF Head(s) = tok THEN Replace(Tail(s), tok)
                   ELSE <<Head(s)>> \o Replace(Tail(s), tok)

\* tok in s
Contains(s, tok) == \E k \in 1..Len(s) : s[k] = tok

\* mutant of Join: the separator is dropped
RECURSIVE JoinNoSep(_, _)
JoinNoSep(parts, sep) == IF parts = <<>> THEN <<>>
                         ELSE parts[1] \o JoinNoSep(Tail(parts), sep)

\* sep.join(parts)
RECURSIVE Join(_, _)
Join(parts, sep) == IF parts = <<>> THEN <<>>
                    ELSE IF Len(parts) = 1 THEN parts[1]
                    ELSE parts[1] \o sep \o Join(Tail(parts), sep)

\* ---------------------------------------------------------------- html
\* a location: host "" is a reference relative to the page's host
Url(h, n, e) == [host |-> h, name |-> n, ext |-> e]

\* an attribute that is missing or empty
NoUrl == Url("", "", "")

Txt(t) == [kind |-> "text", s |-> t, data_src |-> NoUrl, src |-> NoUrl]

Img(d, s) == [kind |-> "img", s |-> "", data_src |-> d, src |-> s]

BASE_URL == "tw.linovelib.com"

PicRel == Url("", "pic", "")

PicAbs == Url(BASE_URL, "pic", "")

Placeholder == Url("", "SLoading", ".svg")

\* the content regions the site can serve
HtmlIds == {"hello", "world", "warned", "warnonly", "loadfail", "blank", "spaces",
            "pics", "lazy"}

Nodes(h) ==
  CASE h = "hello"    -> <<Txt("Hello")>>
    [] h = "world"    -> <<Txt("World")>>
    [] h = "warned"   -> <<Txt(MOBILE_WARNING_TEXT), Txt("World")>>
    [] h = "warnonly" -> <<Txt(MOBILE_WARNING_TEXT)>>
    [] h = "loadfail" -> <<Txt(LOAD_FAILURE_TEXT)>>
    [] h = "blank"    -> <<>>
    [] h = "spaces"   -> <<Txt(" ")>>
    [] h = "pics"     -> <<Img(PicRel, Placeholder), Txt("World"), Img(NoUrl, PicAbs)>>
    [] h = "lazy"     -> <<Img(Placeholder, NoUrl), Img(NoUrl, Placeholder), Img(NoUrl, NoUrl)>>

\* not content_html or content_html.strip() == ""
HtmlEmpty(h) == IF h = None THEN TRUE
                ELSE \A k \in 1..Len(Nodes(h)) :
                        Nodes(h)[k].kind = "text" /\ IsSpace(Nodes(h)[k].s)

\* mutant of HasLoadFailure: the HTML is not looked at
HasLoadFailureNever(h) == FALSE

\* LOAD_FAILURE_TEXT in content_html
HasLoadFailure(h) == IF h = None THEN FALSE
                     ELSE \E k \in 1..Len(Nodes(h)) :
                             Nodes(h)[k].kind = "text" /\ Nodes(h)[k].s = LOAD_FAILURE_TEXT

\* soup.find_all('img')
RECURSIVE FindAllImg(_)
FindAllImg(ns) == IF ns = <<>> THEN <<>>
                  ELSE IF Head(ns).kind = "img" THEN <<Head(ns)>> \o FindAllImg(Tail(ns))
                  ELSE FindAllImg(Tail(ns))

\* the stripped, non-empty strings of the soup
RECURSIVE StrippedStrings(_)
StrippedStrings(ns) ==
  IF ns = <<>> THEN <<>>
  ELSE IF Head(ns).kind = "text" /\ ~IsSpace(Head(ns).s)
       THEN <<<<Head(ns).s>>>> \o StrippedStrings(Tail(ns))
       ELSE StrippedStrings(Tail(ns))

\* soup.get_text(separator='\n', strip=True)
GetText(ns) == Join(StrippedStrings(ns), <<NL>>)

\* lines 251-252: the text of one page
PageText(h) == Replace(Replace(GetText(Nodes(h)), MOBILE_WARNING_TEXT), LOAD_FAILURE_TEXT)

\* -------------------------------------------------------------- images
\* str.lower() on the names the site uses
Lower(n) == IF n = "SLoading" THEN "sloading" ELSE n

\* 'sloading.svg' in src.lower()
IsPlaceholder(u) == Lower(u.name) = "sloading" /\ Lower(u.ext) = ".svg"

\* lines 219-232: the source chosen for one img element, NoUrl when skipped
ChooseSource(img) ==
  IF img.data_src # NoUrl THEN img.data_src
  ELSE IF img.src # NoUrl /\ ~IsPlaceholder(img.src) THEN img.src
  ELSE NoUrl

\* urljoin(page_base_url, ref)
UrlJoin(base, ref) == IF ref.host = "" THEN Url(base, ref.name, ref.ext) ELSE ref

\* lines 237-238
ImgExt(u) == IF u.ext # "" THEN u.ext ELSE ".jpg"

\* a content-type header; NoCtype when the answer declares none
Ctype(type, subtype) == [type |-> type, subtype |-> subtype]

NoCtype == Ctype("", "")

\* what requests.get and the file write of download_image can do; "exception"
\* is an error that download_image does not catch itself
DownloadOutcomes == {"image", "html", "no_ctype", "http_error", "net_error",
                     "open_error", "write_error", "exception"}

\* line 69: response.headers.get('content-type')
ContentType(out) ==
  CASE out = "html"     -> Ctype("text", "html")
    [] out = "no_ctype" -> NoCtype
    [] OTHER            -> Ctype("image", "jpeg")

\* line 70: content_type and not content_type.startswith('image/')
Rejected(ct) == ct # NoCtype /\ ct.type # "image"

\* lines 66-80: what download_image leaves at save_path
Written(out) ==
  IF out \in {"http_error", "net_error", "exception"} THEN "nothing"
  ELSE IF Rejected(ContentType(out)) THEN "nothing"
  ELSE IF out = "open_error" THEN "nothing"
  ELSE IF out = "write_error" THEN "partial"
  ELSE "whole"

\* download_image: its return value (an uncaught exception ends in the
\* handler of line 247, which counts like False)
DownloadImage(out) == Written(out) = "whole"

\* open(save_path, 'wb') and the writes of lines 76-78
WriteImage(fs, name, out) ==
  IF Written(out) = "nothing" THEN fs
  ELSE {f \in fs : f.name # name}
         \cup {[name |-> name, ctype |-> ContentType(out), whole |-> Written(out) = "whole"]}

\* mutant of NextCounter: the ordinal advances on every request
NextCounterAlways(counter, ok) == counter + 1

\* lines 242-246: img_counter after one download
NextCounter(counter, ok) == IF ok THEN counter + 1 ELSE counter

\* mutant of CaptureImages: the first failed image ends the loop
RECURSIVE CaptureImagesUntilFailure(_, _, _, _, _)
CaptureImagesUntilFailure(imgs, answer, k, ch, acc) ==
  IF k > Len(imgs) THEN acc
  ELSE LET chosen == ChooseSource(imgs[k])
           abs    == UrlJoin(BASE_URL, chosen)
           name   == [ch |-> ch, ord |-> acc.counter, ext |-> ImgExt(abs)]
           ok     == DownloadImage(answer[abs])
           after  == [counter  |-> NextCounter(acc.counter, ok),
                      requests |-> Append(acc.requests, abs),
                      saved    |-> IF ok THEN Append(acc.saved, acc.counter) ELSE acc.saved,
                      files    |-> WriteImage(acc.files, name, answer[abs])]
       IN  IF chosen = NoUrl THEN CaptureImagesUntilFailure(imgs, answer, k + 1, ch, acc)
           ELSE IF ok THEN CaptureImagesUntilFailure(imgs, answer, k + 1, ch, after)
           ELSE after

\* lines 217-248 over the img elements of one page; answer[u] is what the
\* download of location u does.  acc = [counter, requests, saved, files]
RECURSIVE CaptureImages(_, _, _, _, _)
CaptureImages(imgs, answer, k, ch, acc) ==
  IF k > Len(imgs) THEN acc
  ELSE LET chosen == ChooseSource(imgs[k])
           abs    == UrlJoin(BASE_URL, chosen)
           name   == [ch |-> ch, ord |-> acc.counter, ext |-> ImgExt(abs)]
           ok     == DownloadImage(answer[abs])
       IN  IF chosen = NoUrl THEN CaptureImages(imgs, answer, k + 1, ch, acc)
           ELSE CaptureImages(imgs, answer, k + 1, ch,
                  [counter  |-> NextCounter(acc.counter, ok),
                   requests |-> Append(acc.requests, abs),
                   saved    |-> IF ok THEN Append(acc.saved, acc.counter) ELSE acc.saved,
                   files    |-> WriteImage(acc.files, name, answer[abs])])

\* --------------------------------------------------------------- state
VARIABLES
  site,                    \* the profile of the simulated site
  image_host,              \* what the image host does with a request for the picture
  run,                     \* number of the current invocation of main()
  pc,                      \* position in main() / get_chapter_content()
  i,                       \* main: index of the chapter being handled (from 1)
  files,                   \* the chapter artifacts on disk, by chapter index
  image_files,             \* the image files on disk
  text_content,            \* main: what get_chapter_content returned
  all_text_parts,          \* get_chapter_content locals
  page_num,
  chapter_fetch_successful,
  img_counter,
  page_reload_count,
  page_fetch_successful,
  page_text_content,
  attempts,                \* history: iterations of the inner loop on this page
  reloads,                 \* history: page.reload calls on this page
  reload_failed,           \* history: a page.reload call on this page raised
  nMW, nLF, nTO,           \* history: counted failures of this page, by cause
  served,                  \* history: content accepted for each successful page
                           \*   (of the first MaxPages pages)
  requests,                \* history: image locations requested in this chapter
  saved,                   \* history: ordinals of the images saved in this chapter
  end_reason,              \* history: why the pagination loop was left
  fetched,                 \* history: chapters acquired in this run
  handled,                 \* history: chapters handled in this run, in order
  files_before,            \* history: the artifacts when this run started
  other_pc,                \* a second main() on the same output directory: its
  other_i,                 \*   position ("off" when there is none) and its chapter
  acquirers,               \* history: who called get_chapter_content, by chapter
  writes,                  \* history: times the artifact was opened for writing
  partial,                 \* history: chapters whose artifact was left unfinished
  cancelled_at,            \* history: where a signal ended this run, or "none"
  failed,                  \* history: chapters whose last acquisition returned None
  slept,                   \* seconds the chapter loop slept before it came to chapter i
  links_in,                \* main: all_chapter_links as fetched, lines 458-524
  unique_chapter_links,    \* main: the list of lines 526-534
  browser, context,        \* main: "none", "open", "closed", "close_error"
  exit_reason,             \* history: why main() returned, "none" while it runs
  overlay,                 \* history: how lines 127-151 ended in this attempt
  warned,                  \* history: line 156 saw the mobile warning in this attempt
  seen,                    \* history: the HTML lines 179-197 read in this attempt
  earlier_reloads,         \* history: the reloads of the page before this one
  discovery                \* main: the fetch of the chapter links, lines 458-524

vars == <<site, discovery, image_host, other_pc, other_i, run, cancelled_at, pc, i, files, writes, partial, image_files, text_content, failed, all_text_parts,
          page_num, chapter_fetch_successful, img_counter, page_reload_count,
          page_fetch_successful, page_text_content, attempts, reloads,
          reload_failed, nMW, nLF, nTO, served, requests, saved, end_reason, fetched, acquirers,
          handled, slept, files_before, links_in, unique_chapter_links, browser,
          context, exit_reason, overlay, warned, seen, earlier_reloads>>

loopVars == <<site, discovery, image_host, other_pc, other_i, run, cancelled_at, i, files, writes,
             partial, fetched, acquirers, handled, slept, files_before>>

sessionVars == <<links_in, unique_chapter_links, browser, context, exit_reason>>

mainVars == <<loopVars, sessionVars>>

pageHist == <<attempts, reloads, reload_failed, nMW, nLF, nTO>>

attemptHist == <<overlay, warned, seen>>

chapterVars == <<attemptHist, earlier_reloads, image_files, text_content, failed, all_text_parts, page_num,
                 chapter_fetch_successful, img_counter, page_reload_count,
                 page_fetch_successful, page_text_content, pageHist, served,
                 requests, saved, end_reason>>

\* the chapter links of the catalog of the simulated site: NumChapters
\* chapters, the first of them listed once more at the end
catalog_links ==
  [k \in 1..(NumChapters + 1) |->
     IF k <= NumChapters THEN [title |-> "Title" \o ToString(k), url |-> k]
     ELSE [title |-> "Again", url |-> 1]]

\* the lists of chapter links the deduplication is tried on
LinkRecords == [title : {"A", "B"}, url : {1, 2}]

LinkLists == UNION {[1..n -> LinkRecords] : n \in 0..MaxLinks}

\* lines 526-531: the loop over the fetched links
RECURSIVE DedupLoop(_, _, _)
DedupLoop(rest, seen_urls, unique) ==
  IF rest = <<>> THEN unique
  ELSE IF Head(rest).url \notin seen_urls
       THEN DedupLoop(Tail(rest), seen_urls \cup {Head(rest).url}, Append(unique, Head(rest)))
       ELSE DedupLoop(Tail(rest), seen_urls, unique)

\* mutant of Dedup: the last occurrence of a url takes the place of the first
RECURSIVE DedupLastWins(_)
DedupLastWins(links) ==
  IF links = <<>> THEN <<>>
  ELSE IF \E k \in 2..Len(links) : links[k].url = Head(links).url
       THEN DedupLastWins(Tail(links))
       ELSE <<Head(links)>> \o DedupLastWins(Tail(links))

\* lines 526-534: the deduplicated chapter list
Dedup(links) == DedupLoop(links, {}, <<>>)

\* lines 405-424: the links of the catalog page, or of the page of volume k
PageLinks(catalog, k) ==
  IF catalog THEN catalog_links ELSE <<[title |-> "Title" \o ToString(k), url |-> k]>>

\* what get_novel_info found: the catalog, or n volumes, or neither; nothing
\* is requested yet
NovelInfo(catalog, n) ==
  [catalog_url  |-> catalog,
   volume_links |-> n,
   page         |-> 1,
   attempt      |-> 0,
   requests     |-> [k \in 1..(IF catalog THEN 1 ELSE n) |-> 0],
   got          |-> {},
   empty        |-> {},
   skipped      |-> {}]

\* the number of pages the discovery has to fetch
Pages(d) == IF d.catalog_url THEN 1 ELSE d.volume_links

\* the links of the pages fetched so far, in the order of the pages
RECURSIVE LinksOf(_, _, _)
LinksOf(catalog, pages, k) ==
  IF k = 0 THEN <<>>
  ELSE LinksOf(catalog, pages, k - 1)
         \o (IF k \in pages THEN PageLinks(catalog, k) ELSE <<>>)

\* lines 549-556: enumerate and f"{i+1:03d}" number the chapters of a list
ChapterNumbers(links) == [k \in 1..Len(links) |-> k]

\* line 534: the list the chapter loop works on
all_chapter_links == Dedup(catalog_links)

Absent == [exists |-> FALSE, content |-> <<>>]

NoResult == [none |-> TRUE, text |-> <<>>]

\* lines 571-573: the artifact of a chapter
Artifact(title, text) == [exists |-> TRUE, content |-> <<title, NL, NL>> \o text]

\* ---------------------------------------------------- the simulated site
\* What the remote site does is drawn from a profile:
\*   "e2e"    page 1 shows the mobile warning once and then "Hello", page 2
\*            shows "World" and has no next-page control;
\*   "flaky"  every call can time out or raise, every signature can show;
\*   "texts"  every kind of text content, calls succeed;
\*   "images" pages with images (the later pages can come empty), calls
\*            succeed, the download of the picture can fail;
\*   "endless" every page shows a next-page control; the pages hold no text.
\* The chapters of the first four sites have at most MaxPages pages.  On the
\* endless site page_num stops counting at MaxPages, which then stands for
\* every later page.
Sites == {"e2e", "flaky", "texts", "images", "endless"}

\* is_visible of the mobile warning, lines 154-169
MobileOutcomes ==
  CASE site = "e2e"   -> IF page_num = 1 /\ attempts = 1 THEN {"visible"} ELSE {"hidden"}
    [] site = "flaky" -> {"visible", "hidden", "timeout", "error"}
    [] OTHER          -> {"hidden"}

\* page.goto, page.reload, wait_for, click, wait_for_load_state
CallOutcomes == IF site = "flaky" THEN {"ok", "timeout", "error"} ELSE {"ok"}

\* inner_html of the content region, lines 173-179
HtmlOutcomes ==
  CASE site = "e2e"    -> IF page_num = 1 THEN {"hello"} ELSE {"world"}
    [] site = "flaky"  -> {"hello", "loadfail", "blank"}
    [] site = "texts"  -> {"hello", "warned", "spaces", "loadfail"}
    [] site = "images" -> IF page_num = 1 THEN {"pics", "lazy"} ELSE {"lazy", "blank"}
    [] site = "endless" -> {"warnonly"}

\* page.evaluate fallback, lines 184-197: an exception gives None
FallbackOutcomes == IF site = "e2e" THEN HtmlOutcomes ELSE HtmlOutcomes \cup {None}

\* lines 179-197: the HTML read from the content region, with the fallback
ReadHtml(h, f) == IF HtmlEmpty(h) THEN f ELSE h

\* every value content_html can have at line 199
HtmlRead == {ReadHtml(h, f) : h \in HtmlOutcomes, f \in FallbackOutcomes}

\* the next-page control, lines 293-305
NextOutcomes ==
  CASE site = "e2e"     -> IF page_num = 1 THEN {"next"} ELSE {"hidden"}
    [] site = "endless" -> {"next"}
    [] site = "flaky"   -> {"hidden", "mismatch", "vis_error", "text_error"}
                             \cup IF page_num < MaxPages THEN {"next"} ELSE {}
    [] OTHER            -> {"hidden"} \cup IF page_num < MaxPages THEN {"next"} ELSE {}

\* get_novel_info, os.makedirs and the fetch of the links, lines 436-524
StartOutcomes ==
  IF site = "flaky" THEN {"links", "no_title", "mkdir_error", "no_source", "no_links"}
  ELSE {"links"}

\* chromium.launch, new_context, new_page, lines 541-545
LaunchOutcomes ==
  IF site = "flaky" THEN {"ok", "launch_error", "context_error", "page_error"} ELSE {"ok"}

\* context.close and browser.close, lines 593-604
CloseOutcomes == IF site = "flaky" THEN {"ok", "error"} ELSE {"ok"}

\* the returns of main before the browser block, lines 438-524
BeforeLaunch == {"no_title", "mkdir_error", "no_source", "no_links"}

\* the exceptions of lines 541-545
NoSession == {"launch_error", "context_error", "page_error"}

\* main was left before the chapter loop had gone through the list
EndedEarly == exit_reason \in {"signal", "loop_error"} \cup BeforeLaunch \cup NoSession

\* lines 127-151: no close control is visible, one is clicked, is_visible or
\* click raises
OverlayOutcomes == IF site = "flaky" THEN {"none", "clicked", "error"} ELSE {"none"}

\* the statements of the chapter loop that are in no try block
LoopOutcomes == IF site = "flaky" THEN {"ok", "error"} ELSE {"ok"}

\* what open() and the two writes of lines 571-573 can do
WriteOutcomes ==
  IF site = "flaky" THEN {"ok", "open_error", "write_error"} ELSE {"ok"}

\* the answers of the image host: the placeholder is an image that is always
\* served, the picture is answered the same way during one behaviour
ImageAnswers == [u \in {UrlJoin(BASE_URL, PicRel), UrlJoin(BASE_URL, Placeholder)} |->
                   IF u.name = "pic" THEN image_host ELSE "image"]

\* mutant of Exhausted: the page is given up one reload early
ExhaustedAtLimit(count) == count >= MAX_PAGE_RELOADS

\* lines 159, 203, 265, 272: the budget of the page is used up
Exhausted(count) == count > MAX_PAGE_RELOADS

\* mutant of Exists: the existing-output check never finds the artifact
ExistsNever(f) == FALSE

\* line 558: os.path.exists(filepath)
Exists(f) == f.exists

\* mutant of AppendPart: the new part is put in front
PrependPart(parts, text) == IF Strip(text) # <<>> THEN <<text>> \o parts ELSE parts

\* lines 284-288: the parts after a successful page
AppendPart(parts, text) == IF Strip(text) # <<>> THEN Append(parts, text) ELSE parts

\* random.uniform(-2, 2) of line 583, in whole seconds
Jitter == -2..2

\* mutant of DelaySeconds: only the random part is slept
DelayJitterOnly(r) == r

\* lines 583-585: the seconds slept after a chapter
DelaySeconds(r) ==
  LET chapter_delay == REQUEST_DELAY_SECONDS + r
  IN  IF chapter_delay > MIN_CHAPTER_DELAY THEN chapter_delay ELSE MIN_CHAPTER_DELAY

\* ---------------------------------------------------------------- init
\* what is the same at every start
InitRest ==
  /\ run = 1
  /\ i = 1
  /\ files = [k \in 1..NumChapters |-> Absent]
  /\ image_files = {}
  /\ text_content = NoResult
  /\ all_text_parts = <<>>
  /\ page_num = 1
  /\ chapter_fetch_successful = TRUE
  /\ img_counter = 0
  /\ page_reload_count = 0
  /\ page_fetch_successful = FALSE
  /\ page_text_content = <<>>
  /\ attempts = 0
  /\ reloads = 0
  /\ reload_failed = FALSE
  /\ nMW = 0 /\ nLF = 0 /\ nTO = 0
  /\ served = <<>>
  /\ requests = <<>>
  /\ saved = <<>>
  /\ end_reason = "none"
  /\ fetched = {}
  /\ handled = <<>>
  /\ files_before = files
  /\ other_i = 1
  /\ acquirers = [k \in 1..NumChapters |-> {}]
  /\ writes = [k \in 1..NumChapters |-> 0]
  /\ partial = {}
  /\ cancelled_at = "none"
  /\ failed = {}
  /\ slept = 0
  /\ unique_chapter_links = <<>>
  /\ browser = "none" /\ context = "none"
  /\ exit_reason = "none"
  /\ overlay = "pending" /\ warned = FALSE /\ seen = "none"
  /\ earlier_reloads = 0

Init ==
  /\ site \in Sites
  /\ discovery = NovelInfo(TRUE, 0)
  /\ image_host \in IF site = "images" THEN DownloadOutcomes ELSE {"image"}
  /\ other_pc \in IF site = "e2e" THEN {"off", "loop"} ELSE {"off"}
  /\ links_in = catalog_links
  /\ pc = "start"
  /\ InitRest

\* the start of the check of the link discovery: get_novel_info has
\* returned, no page was requested yet
DiscoveryInit ==
  /\ site = "e2e"
  /\ image_host = "image"
  /\ other_pc = "off"
  /\ links_in = <<>>
  /\ discovery \in {NovelInfo(TRUE, 0)} \cup {NovelInfo(FALSE, n) : n \in 0..MaxVolumes}
  /\ pc = "fetch"
  /\ InitRest

\* the start of the check of the deduplication: any list of links
DedupInit ==
  /\ discovery = NovelInfo(TRUE, 0)
  /\ site = "e2e"
  /\ image_host = "image"
  /\ other_pc = "off"
  /\ links_in \in LinkLists
  /\ pc = "dedup"
  /\ InitRest

\* -------------------------------------------------------------- start
\* requests.get, raise_for_status and the parse of one page, lines 463-471:
\* links, a page without links, a RequestException, another exception
FetchOutcomes == {"ok", "empty", "request_error", "other_error"}

discoveryRest == <<site, image_host, other_pc, other_i, run, cancelled_at, i, files, writes,
                   partial, fetched, acquirers, handled, slept, files_before,
                   unique_chapter_links, browser, context, chapterVars>>

\* mutant of FetchPage: a page that cannot be fetched ends the discovery
FetchPageGivesUp ==
  /\ pc = "fetch"
  /\ discovery.page <= Pages(discovery)
  /\ \E out \in FetchOutcomes :
       LET d == discovery
           k == d.page
           asked == [d EXCEPT !.requests[k] = @ + 1]
       IN  CASE out = "ok" ->
                  /\ discovery' = [asked EXCEPT !.got = @ \cup {k}, !.page = k + 1,
                                                !.attempt = 0]
                  /\ links_in' = links_in \o PageLinks(d.catalog_url, k)
             [] out = "empty" ->
                  /\ discovery' = [asked EXCEPT !.empty = @ \cup {k}, !.page = k + 1,
                                                !.attempt = 0]
                  /\ UNCHANGED links_in
             [] out = "request_error" /\ d.attempt < MAX_RETRIES ->
                  /\ discovery' = [asked EXCEPT !.attempt = @ + 1]
                  /\ UNCHANGED links_in
             [] OTHER ->
                  /\ discovery' = [asked EXCEPT !.skipped = @ \cup {k},
                                                !.page = Pages(d) + 1, !.attempt = 0]
                  /\ UNCHANGED links_in
  /\ UNCHANGED <<pc, exit_reason, discoveryRest>>

\* lines 459-515: one request of the catalog page or of the page of a
\* volume.  A RequestException is retried MAX_RETRIES times; after the last
\* one, and after any other exception, the page is left and the next volume
\* is fetched
FetchPage ==
  /\ pc = "fetch"
  /\ discovery.page <= Pages(discovery)
  /\ \E out \in FetchOutcomes :
       LET d == discovery
           k == d.page
           asked == [d EXCEPT !.requests[k] = @ + 1]
       IN  CASE out = "ok" ->
                  /\ discovery' = [asked EXCEPT !.got = @ \cup {k}, !.page = k + 1,
                                                !.attempt = 0]
                  /\ links_in' = links_in \o PageLinks(d.catalog_url, k)
             [] out = "empty" ->
                  /\ discovery' = [asked EXCEPT !.empty = @ \cup {k}, !.page = k + 1,
                                                !.attempt = 0]
                  /\ UNCHANGED links_in
             [] out = "request_error" /\ d.attempt < MAX_RETRIES ->
                  /\ discovery' = [asked EXCEPT !.attempt = @ + 1]
                  /\ UNCHANGED links_in
             [] OTHER ->
                  /\ discovery' = [asked EXCEPT !.skipped = @ \cup {k}, !.page = k + 1,
                                                !.attempt = 0]
                  /\ UNCHANGED links_in
  /\ UNCHANGED <<pc, exit_reason, discoveryRest>>

\* lines 516-524: neither a catalog nor a volume, or no link from any page:
\* main returns; otherwise the links go to the deduplication
EndDiscovery ==
  /\ pc = "fetch"
  /\ discovery.page > Pages(discovery)
  /\ IF ~discovery.catalog_url /\ discovery.volume_links = 0
     THEN pc' = "exited" /\ exit_reason' = "no_source"
     ELSE IF links_in = <<>>
          THEN pc' = "exited" /\ exit_reason' = "no_links"
          ELSE pc' = "dedup" /\ UNCHANGED exit_reason
  /\ UNCHANGED <<discovery, links_in, discoveryRest>>

\* mutant of DiscoverLinks: the browser is launched before the links are
\* looked at
DiscoverLinksAfterLaunch ==
  /\ pc = "start"
  /\ browser' = "open"
  /\ \E out \in StartOutcomes :
       IF out = "links"
       THEN pc' = "dedup" /\ UNCHANGED exit_reason
       ELSE pc' = "exited" /\ exit_reason' = out
  /\ UNCHANGED <<loopVars, links_in, unique_chapter_links, context, chapterVars>>

\* lines 436-524: the novel page, the output directories, the chapter links.
\* main returns when the title is empty, the directories cannot be made, the
\* novel page names no catalog and no volume, or no link was found
DiscoverLinks ==
  /\ pc = "start"
  /\ \E out \in StartOutcomes :
       IF out = "links"
       THEN pc' = "dedup" /\ UNCHANGED exit_reason
       ELSE pc' = "exited" /\ exit_reason' = out
  /\ UNCHANGED <<loopVars, links_in, unique_chapter_links, browser, context, chapterVars>>

\* lines 526-534
Deduplicate ==
  /\ pc = "dedup"
  /\ unique_chapter_links' = Dedup(links_in)
  /\ pc' = "launch"
  /\ UNCHANGED <<loopVars, links_in, browser, context, exit_reason, chapterVars>>

\* lines 537-546 and 589-590: the browser session; an exception goes to the
\* handler of line 589 and then to the finally block
LaunchBrowser ==
  /\ pc = "launch"
  /\ \E out \in LaunchOutcomes :
       /\ browser' = IF out = "launch_error" THEN "none" ELSE "open"
       /\ context' = IF out \in {"launch_error", "context_error"} THEN "none" ELSE "open"
       /\ IF out = "ok"
          THEN pc' = "loop" /\ UNCHANGED exit_reason
          ELSE pc' = "finally" /\ exit_reason' = out
  /\ UNCHANGED <<loopVars, links_in, unique_chapter_links, chapterVars>>

\* ------------------------------------------------------------ main loop
\* lines 549-562: the artifact exists, the chapter is skipped
SkipChapter ==
  /\ pc = "loop" /\ i <= Len(all_chapter_links)
  /\ Exists(files[i])
  /\ handled' = Append(handled, i)
  /\ i' = i + 1
  /\ slept' = 0      \* line 561: less than a second
  /\ UNCHANGED <<sessionVars, site, discovery, image_host, other_pc, other_i, run, cancelled_at, pc, files, writes, partial, image_files, text_content, failed, all_text_parts,
                 page_num, chapter_fetch_successful, img_counter, page_reload_count,
                 page_fetch_successful, page_text_content, pageHist, served,
                 requests, saved, end_reason, fetched, acquirers, files_before>>
  /\ UNCHANGED <<attemptHist, earlier_reloads>>

\* lines 549-564 and 97-102: get_chapter_content is called
StartChapter ==
  /\ pc = "loop" /\ i <= Len(all_chapter_links)
  /\ ~Exists(files[i])
  /\ fetched' = fetched \cup {i}
  /\ acquirers' = [acquirers EXCEPT ![i] = @ \cup {"main"}]
  /\ all_text_parts' = <<>>
  /\ page_num' = 1
  /\ chapter_fetch_successful' = TRUE
  /\ img_counter' = 0
  /\ slept' = 0
  /\ pc' = "goto"
  /\ UNCHANGED <<sessionVars, site, discovery, image_host, other_pc, other_i, run, cancelled_at, i, files, writes, partial, image_files, text_content, failed, page_reload_count,
                 page_fetch_successful, page_text_content, pageHist, served,
                 requests, saved, end_reason, handled, files_before>>
  /\ UNCHANGED <<attemptHist, earlier_reloads>>

\* mutant of Goto: the exception of page.goto is not caught in
\* get_chapter_content and ends the chapter loop
GotoUncaught ==
  /\ pc = "goto"
  /\ \E out \in CallOutcomes :
       IF out = "ok"
       THEN pc' = "page" /\ UNCHANGED <<text_content, failed, end_reason>>
       ELSE /\ pc' = "exited" /\ text_content' = NoResult /\ end_reason' = "goto_error"
            /\ failed' = failed \cup {i}
  /\ UNCHANGED <<mainVars, image_files, all_text_parts, page_num,
                 chapter_fetch_successful, img_counter, page_reload_count,
                 page_fetch_successful, page_text_content, pageHist, served, requests, saved>>
  /\ UNCHANGED <<attemptHist, earlier_reloads>>

\* lines 104-109 and 350-355: the first navigation
Goto ==
  /\ pc = "goto"
  /\ \E out \in CallOutcomes :
       IF out = "ok"
       THEN pc' = "page" /\ UNCHANGED <<text_content, failed, end_reason>>
       ELSE /\ pc' = "save" /\ text_content' = NoResult /\ end_reason' = "goto_error"
            /\ failed' = failed \cup {i}
  /\ UNCHANGED <<mainVars, image_files, all_text_parts, page_num,
                 chapter_fetch_successful, img_counter, page_reload_count,
                 page_fetch_successful, page_text_content, pageHist, served, requests, saved>>
  /\ UNCHANGED <<attemptHist, earlier_reloads>>

\* mutant of BeginPage: the counter of the page before is kept
BeginPageKeepsCount ==
  /\ pc = "page"
  /\ page_fetch_successful' = FALSE
  /\ page_text_content' = <<>>
  /\ attempts' = 0 /\ reloads' = 0 /\ reload_failed' = FALSE
  /\ nMW' = 0 /\ nLF' = 0 /\ nTO' = 0
  /\ pc' = "attempt"
  /\ UNCHANGED page_reload_count
  /\ UNCHANGED <<mainVars, image_files, text_content, failed, all_text_parts, page_num,
                 chapter_fetch_successful, img_counter, served, requests, saved, end_reason>>
  /\ UNCHANGED <<attemptHist, earlier_reloads>>

\* lines 111-117: a new page of the chapter
BeginPage ==
  /\ pc = "page"
  /\ page_fetch_successful' = FALSE
  /\ page_reload_count' = 0
  /\ page_text_content' = <<>>
  /\ attempts' = 0 /\ reloads' = 0 /\ reload_failed' = FALSE
  /\ nMW' = 0 /\ nLF' = 0 /\ nTO' = 0
  /\ pc' = "attempt"
  /\ UNCHANGED <<mainVars, image_files, text_content, failed, all_text_parts, page_num,
                 chapter_fetch_successful, img_counter, served, requests, saved, end_reason>>
  /\ UNCHANGED <<attemptHist, earlier_reloads>>

\* lines 120-126: one more iteration of the inner loop
BeginAttempt ==
  /\ pc = "attempt"
  /\ ~Exhausted(page_reload_count)
  /\ attempts' = attempts + 1
  /\ pc' = "dismiss"
  /\ UNCHANGED <<mainVars, image_files, text_content, failed, all_text_parts, page_num,
                 chapter_fetch_successful, img_counter, page_reload_count,
                 page_fetch_successful, page_text_content, reloads, reload_failed,
                 nMW, nLF, nTO, served, requests, saved, end_reason>>
  /\ UNCHANGED <<attemptHist, earlier_reloads>>

\* mutant of DismissOverlays: an exception of a close control counts as a
\* failed attempt
DismissOverlaysCounts ==
  /\ pc = "dismiss"
  /\ \E out \in OverlayOutcomes :
       IF out = "error"
       THEN /\ overlay' = "pending"
            /\ page_reload_count' = page_reload_count + 1
            /\ pc' = IF Exhausted(page_reload_count + 1) THEN "page_end" ELSE "attempt"
       ELSE /\ overlay' = out
            /\ pc' = "mobile"
            /\ UNCHANGED page_reload_count
  /\ UNCHANGED <<mainVars, image_files, text_content, failed, all_text_parts, page_num,
                 chapter_fetch_successful, img_counter, page_fetch_successful,
                 page_text_content, pageHist, served, requests, saved, end_reason,
                 warned, seen, earlier_reloads>>

\* lines 127-151: the close controls of overlays are tried; every exception
\* is caught and logged, and the mobile check of line 154 follows
DismissOverlays ==
  /\ pc = "dismiss"
  /\ \E out \in OverlayOutcomes : overlay' = out
  /\ pc' = "mobile"
  /\ UNCHANGED <<mainVars, image_files, text_content, failed, all_text_parts, page_num,
                 chapter_fetch_successful, img_counter, page_reload_count,
                 page_fetch_successful, page_text_content, pageHist, served,
                 requests, saved, end_reason, warned, seen, earlier_reloads>>

\* mutant of MobileWarningDetected: the mobile warning has a budget of its
\* own and leaves the counter of the page alone
MobileWarningOwnBudget ==
  /\ pc = "mobile"
  /\ "visible" \in MobileOutcomes
  /\ nMW' = nMW + 1
  /\ IF Exhausted(nMW + 1)
     THEN pc' = "page_end" /\ UNCHANGED <<reloads, reload_failed>>
     ELSE \E out \in CallOutcomes :
            /\ reloads' = reloads + 1
            /\ IF out = "ok"
               THEN pc' = "attempt" /\ UNCHANGED reload_failed
               ELSE pc' = "extract" /\ reload_failed' = TRUE
  /\ UNCHANGED <<mainVars, image_files, text_content, failed, all_text_parts, page_num,
                 chapter_fetch_successful, img_counter, page_reload_count,
                 page_fetch_successful, page_text_content, attempts, nLF, nTO,
                 served, requests, saved, end_reason>>
  /\ warned' = (pc' = "extract")
  /\ overlay' = IF pc' = "extract" THEN overlay ELSE "pending"
  /\ UNCHANGED <<seen, earlier_reloads>>

\* lines 156-163, 166-169: the mobile warning is visible.  The reload is
\* inside the try of the check: when it raises, lines 166-169 log the
\* exception and the attempt goes on to the extraction
MobileWarningDetected ==
  /\ pc = "mobile"
  /\ "visible" \in MobileOutcomes
  /\ page_reload_count' = page_reload_count + 1
  /\ nMW' = nMW + 1
  /\ IF Exhausted(page_reload_count + 1)
     THEN pc' = "page_end" /\ UNCHANGED <<reloads, reload_failed>>
     ELSE \E out \in CallOutcomes :
            /\ reloads' = reloads + 1
            /\ IF out = "ok"
               THEN pc' = "attempt" /\ UNCHANGED reload_failed
               ELSE pc' = "extract" /\ reload_failed' = TRUE
  /\ UNCHANGED <<mainVars, image_files, text_content, failed, all_text_parts, page_num,
                 chapter_fetch_successful, img_counter, page_fetch_successful,
                 page_text_content, attempts, nLF, nTO, served, requests, saved, end_reason>>
  /\ warned' = (pc' = "extract")
  /\ overlay' = IF pc' = "extract" THEN overlay ELSE "pending"
  /\ UNCHANGED <<seen, earlier_reloads>>

\* lines 164-169: the warning is not visible, or the check itself raised
MobileWarningAbsent ==
  /\ pc = "mobile"
  /\ MobileOutcomes \ {"visible"} # {}
  /\ pc' = "extract"
  /\ UNCHANGED <<mainVars, image_files, text_content, failed, all_text_parts, page_num,
                 chapter_fetch_successful, img_counter, page_reload_count,
                 page_fetch_successful, page_text_content, pageHist, served,
                 requests, saved, end_reason>>
  /\ UNCHANGED <<attemptHist, earlier_reloads>>

\* lines 172-179 and 262-275: wait_for or inner_html raised
ExtractRaises ==
  /\ pc = "extract"
  /\ CallOutcomes \ {"ok"} # {}
  /\ page_reload_count' = page_reload_count + 1
  /\ nTO' = nTO + 1
  /\ pc' = IF Exhausted(page_reload_count + 1) THEN "page_end" ELSE "attempt"
  /\ UNCHANGED <<mainVars, image_files, text_content, failed, all_text_parts, page_num,
                 chapter_fetch_successful, img_counter, page_fetch_successful,
                 page_text_content, attempts, reloads, reload_failed, nMW, nLF,
                 served, requests, saved, end_reason>>
  /\ overlay' = "pending" /\ warned' = FALSE /\ seen' = "none"
  /\ UNCHANGED earlier_reloads

\* lines 199-207 and 262-275: the HTML holds the load-failure message.  The
\* reload is inside the try of the extraction: when it raises, the handlers
\* of lines 262-275 count the attempt a second time
ExtractLoadFailure ==
  /\ pc = "extract"
  /\ \E html \in HtmlRead : HasLoadFailure(html)
  /\ nLF' = nLF + 1
  /\ IF Exhausted(page_reload_count + 1)
     THEN /\ page_reload_count' = page_reload_count + 1
          /\ pc' = "page_end"
          /\ UNCHANGED <<reloads, reload_failed, nTO>>
     ELSE \E out \in CallOutcomes :
            /\ reloads' = reloads + 1
            /\ IF out = "ok"
               THEN /\ page_reload_count' = page_reload_count + 1
                    /\ pc' = "attempt"
                    /\ UNCHANGED <<reload_failed, nTO>>
               ELSE /\ page_reload_count' = page_reload_count + 2
                    /\ reload_failed' = TRUE
                    /\ nTO' = nTO + 1
                    /\ pc' = IF Exhausted(page_reload_count + 2)
                             THEN "page_end" ELSE "attempt"
  /\ UNCHANGED <<mainVars, image_files, text_content, failed, all_text_parts, page_num,
                 chapter_fetch_successful, img_counter, page_fetch_successful,
                 page_text_content, attempts, nMW, served, requests, saved, end_reason>>
  /\ overlay' = "pending" /\ warned' = FALSE /\ seen' = "none"
  /\ UNCHANGED earlier_reloads

\* mutant of ExtractContent: a page without text is not a success
ExtractContentNeedsText ==
  /\ pc = "extract"
  /\ \E html \in HtmlRead :
       LET imgs == FindAllImg(Nodes(html))
       IN  /\ ~HasLoadFailure(html) /\ ~HtmlEmpty(html)
           /\ seen' = html
           /\ LET got == CaptureImages(imgs, ImageAnswers, 1, i,
                             [counter |-> img_counter, requests |-> requests,
                              saved |-> saved, files |-> image_files])
              IN  /\ img_counter' = got.counter
                  /\ requests' = got.requests
                  /\ saved' = got.saved
                  /\ image_files' = got.files
           /\ page_text_content' = PageText(html)
           /\ served' = IF Len(served) < MaxPages THEN Append(served, html) ELSE served
  /\ page_fetch_successful' = (Strip(page_text_content') # <<>>)
  /\ pc' = "page_end"
  /\ UNCHANGED <<mainVars, text_content, failed, all_text_parts, page_num,
                 chapter_fetch_successful, page_reload_count, pageHist, end_reason>>
  /\ overlay' = "pending" /\ warned' = FALSE
  /\ UNCHANGED earlier_reloads

\* lines 210-256: the HTML is usable: images, then text
ExtractContent ==
  /\ pc = "extract"
  /\ \E html \in HtmlRead :
       LET imgs == FindAllImg(Nodes(html))
       IN  /\ ~HasLoadFailure(html) /\ ~HtmlEmpty(html)
           /\ seen' = html
           /\ LET got == CaptureImages(imgs, ImageAnswers, 1, i,
                             [counter |-> img_counter, requests |-> requests,
                              saved |-> saved, files |-> image_files])
              IN  /\ img_counter' = got.counter
                  /\ requests' = got.requests
                  /\ saved' = got.saved
                  /\ image_files' = got.files
           /\ page_text_content' = PageText(html)
           /\ served' = IF Len(served) < MaxPages THEN Append(served, html) ELSE served
  /\ page_fetch_successful' = TRUE
  /\ pc' = "page_end"
  /\ UNCHANGED <<mainVars, text_content, failed, all_text_parts, page_num,
                 chapter_fetch_successful, page_reload_count, pageHist, end_reason>>
  /\ overlay' = "pending" /\ warned' = FALSE
  /\ UNCHANGED earlier_reloads

\* mutant of ExtractEmpty: a page without HTML is passed over and the
\* next-page control is looked for
ExtractEmptySkipsPage ==
  /\ pc = "extract"
  /\ \E html \in HtmlRead : HtmlEmpty(html) /\ seen' = html
  /\ pc' = "next"
  /\ UNCHANGED <<mainVars, image_files, text_content, failed, all_text_parts, page_num,
                 chapter_fetch_successful, img_counter, page_reload_count,
                 page_fetch_successful, page_text_content, pageHist, served,
                 requests, saved, end_reason>>
  /\ overlay' = "pending" /\ warned' = FALSE
  /\ UNCHANGED earlier_reloads

\* lines 258-260: no HTML at all, also after the fallback
ExtractEmpty ==
  /\ pc = "extract"
  /\ \E html \in HtmlRead : HtmlEmpty(html) /\ seen' = html
  /\ pc' = "page_end"
  /\ UNCHANGED <<mainVars, image_files, text_content, failed, all_text_parts, page_num,
                 chapter_fetch_successful, img_counter, page_reload_count,
                 page_fetch_successful, page_text_content, pageHist, served,
                 requests, saved, end_reason>>
  /\ overlay' = "pending" /\ warned' = FALSE
  /\ UNCHANGED earlier_reloads

\* mutant of PageFailed: the images of the aborted chapter are removed
PageFailedRemovesImages ==
  /\ pc = "page_end"
  /\ ~page_fetch_successful
  /\ chapter_fetch_successful' = FALSE
  /\ end_reason' = "give_up"
  /\ pc' = "return"
  /\ attempts' = 0 /\ reloads' = 0 /\ reload_failed' = FALSE
  /\ nMW' = 0 /\ nLF' = 0 /\ nTO' = 0
  /\ UNCHANGED <<mainVars, text_content, failed, all_text_parts, page_num,
                 img_counter, page_reload_count, page_fetch_successful,
                 page_text_content, served, requests, saved>>
  /\ earlier_reloads' = 0
  /\ seen' = "none"
  /\ UNCHANGED <<overlay, warned>>
  /\ image_files' = {f \in image_files : f.name.ch # i}

\* lines 279-282: the page was given up, the chapter is aborted (the history
\* of the page ends with the page)
PageFailed ==
  /\ pc = "page_end"
  /\ ~page_fetch_successful
  /\ chapter_fetch_successful' = FALSE
  /\ end_reason' = "give_up"
  /\ pc' = "return"
  /\ attempts' = 0 /\ reloads' = 0 /\ reload_failed' = FALSE
  /\ nMW' = 0 /\ nLF' = 0 /\ nTO' = 0
  /\ UNCHANGED <<mainVars, image_files, text_content, failed, all_text_parts, page_num,
                 img_counter, page_reload_count, page_fetch_successful,
                 page_text_content, served, requests, saved>>
  /\ earlier_reloads' = 0
  /\ seen' = "none"
  /\ UNCHANGED <<overlay, warned>>

\* lines 284-288: the text of a successful page is appended when not blank
AppendPageText ==
  /\ pc = "page_end"
  /\ page_fetch_successful
  /\ all_text_parts' = AppendPart(all_text_parts, page_text_content)
  /\ pc' = "next"
  /\ attempts' = 0 /\ reloads' = 0 /\ reload_failed' = FALSE
  /\ nMW' = 0 /\ nLF' = 0 /\ nTO' = 0
  /\ UNCHANGED <<mainVars, image_files, text_content, failed, page_num,
                 chapter_fetch_successful, img_counter, page_reload_count,
                 page_fetch_successful, page_text_content, served,
                 requests, saved, end_reason>>
  /\ earlier_reloads' = reloads
  /\ seen' = "none"
  /\ UNCHANGED <<overlay, warned>>

\* lines 290-322: the next-page control is visible and is followed
FollowNextPage ==
  /\ pc = "next"
  /\ "next" \in NextOutcomes
  /\ \E click \in CallOutcomes, wait \in CallOutcomes :
       IF click = "ok" /\ wait = "ok"
       THEN /\ page_num' = IF page_num < MaxPages THEN page_num + 1 ELSE page_num
            /\ pc' = "page"
            /\ UNCHANGED end_reason
       ELSE /\ end_reason' = IF click # "ok" THEN "click_error" ELSE "wait_error"
            /\ pc' = "return"
            /\ UNCHANGED page_num
  /\ UNCHANGED <<mainVars, image_files, text_content, failed, all_text_parts,
                 chapter_fetch_successful, img_counter, page_reload_count,
                 page_fetch_successful, page_text_content, pageHist, served, requests, saved>>
  /\ earlier_reloads' = IF pc' = "page" THEN earlier_reloads ELSE 0
  /\ UNCHANGED attemptHist

\* lines 290-299, 323-332: the pagination loop is left without a click
EndOfChapter ==
  /\ pc = "next"
  /\ \E out \in NextOutcomes \ {"next"} : end_reason' = out
  /\ pc' = "return"
  /\ UNCHANGED <<mainVars, image_files, text_content, failed, all_text_parts, page_num,
                 chapter_fetch_successful, img_counter, page_reload_count,
                 page_fetch_successful, page_text_content, pageHist, served, requests, saved>>
  /\ earlier_reloads' = 0
  /\ UNCHANGED attemptHist

\* mutant of ChapterResult: the parts collected so far are returned also
\* when the chapter was aborted
ChapterResultPartial(ok, parts) ==
  IF parts = <<>> THEN [none |-> ~ok, text |-> <<>>]
  ELSE [none |-> FALSE, text |-> Strip(Join(parts, <<NL, NL>>))]

\* lines 336-348: the value get_chapter_content returns
ChapterResult(ok, parts) ==
  IF ~ok THEN NoResult
  ELSE IF parts = <<>> THEN [none |-> FALSE, text |-> <<>>]
  ELSE [none |-> FALSE, text |-> Strip(Join(parts, <<NL, NL>>))]

ReturnChapter ==
  /\ pc = "return"
  /\ text_content' = ChapterResult(chapter_fetch_successful, all_text_parts)
  /\ failed' = IF text_content'.none THEN failed \cup {i} ELSE failed \ {i}
  /\ pc' = "save"
  /\ UNCHANGED <<mainVars, image_files, all_text_parts, page_num,
                 chapter_fetch_successful, img_counter, page_reload_count,
                 page_fetch_successful, page_text_content, pageHist, served,
                 requests, saved, end_reason>>
  /\ UNCHANGED <<attemptHist, earlier_reloads>>

\* mutant of Opened: the result None is written like a text
OpenedAlways(result, out) ==
  ~Contains(result.text, LOAD_FAILURE_TEXT) /\ out # "open_error"

\* lines 566-571: the artifact is opened for writing, which empties it
Opened(result, out) ==
  ~result.none /\ ~Contains(result.text, LOAD_FAILURE_TEXT) /\ out # "open_error"

\* mutant of SavedFile: an empty text is taken for no text
SavedFileNeedsBody(old, title, result, out) ==
  IF ~Opened(result, out) \/ result.text = <<>> THEN old
  ELSE IF out = "write_error" THEN [exists |-> TRUE, content |-> <<title, NL, NL>>]
  ELSE Artifact(title, result.text)

\* lines 566-580: the file after the chapter was handled
SavedFile(old, title, result, out) ==
  IF ~Opened(result, out) THEN old
  ELSE IF out = "write_error" THEN [exists |-> TRUE, content |-> <<title, NL, NL>>]
  ELSE Artifact(title, result.text)

SaveChapter ==
  /\ pc = "save"
  /\ \E out \in WriteOutcomes :
       /\ files' = [files EXCEPT ![i] =
                      SavedFile(files[i], all_chapter_links[i].title, text_content, out)]
       /\ writes' = [writes EXCEPT ![i] = IF Opened(text_content, out) THEN @ + 1 ELSE @]
       /\ partial' = IF out = "write_error" /\ Opened(text_content, out)
                     THEN partial \cup {i} ELSE partial \ {i}
  /\ pc' = "delay"
  /\ UNCHANGED <<sessionVars, site, discovery, image_host, other_pc, other_i, run, cancelled_at, i, fetched, acquirers, handled, slept, files_before, image_files,
                 text_content, failed, all_text_parts, page_num, chapter_fetch_successful,
                 img_counter, page_reload_count, page_fetch_successful,
                 page_text_content, pageHist, served, requests, saved, end_reason>>
  /\ UNCHANGED <<attemptHist, earlier_reloads>>

\* lines 582-585: the delay, then the next chapter.  The locals of the
\* finished call are gone
ChapterDelay ==
  /\ pc = "delay"
  /\ \E r \in Jitter : slept' = DelaySeconds(r)
  /\ handled' = Append(handled, i)
  /\ i' = i + 1
  /\ pc' = "loop"
  /\ text_content' = NoResult
  /\ UNCHANGED failed
  /\ all_text_parts' = <<>>
  /\ page_num' = 1
  /\ chapter_fetch_successful' = TRUE
  /\ img_counter' = 0
  /\ page_reload_count' = 0
  /\ page_fetch_successful' = FALSE
  /\ page_text_content' = <<>>
  /\ attempts' = 0 /\ reloads' = 0 /\ reload_failed' = FALSE
  /\ nMW' = 0 /\ nLF' = 0 /\ nTO' = 0
  /\ served' = <<>>
  /\ requests' = <<>>
  /\ saved' = <<>>
  /\ end_reason' = "none"
  /\ UNCHANGED <<sessionVars, site, discovery, image_host, other_pc, other_i, run, cancelled_at, files, writes, partial, image_files, fetched, acquirers, files_before>>
  /\ UNCHANGED <<attemptHist, earlier_reloads>>

\* lines 587-606: all chapters were handled, the run ends
FinishRun ==
  /\ pc = "loop" /\ i > Len(all_chapter_links)
  /\ pc' = "finally"
  /\ exit_reason' = "done"
  /\ UNCHANGED <<loopVars, links_in, unique_chapter_links, browser, context, chapterVars>>

\* lines 549-590: a statement of the chapter loop outside every try block
\* raises; the handler of line 589 logs it and the loop is over
LoopRaises ==
  /\ pc = "loop" /\ i <= Len(all_chapter_links)
  /\ "error" \in LoopOutcomes
  /\ pc' = "finally"
  /\ exit_reason' = "loop_error"
  /\ UNCHANGED <<loopVars, links_in, unique_chapter_links, browser, context, chapterVars>>

\* mutant of CloseSession: an exception of context.close leaves the finally
\* block
CloseSessionStopsAtError ==
  /\ pc = "finally"
  /\ \E c \in CloseOutcomes, b \in CloseOutcomes :
       /\ context' = IF context # "open" THEN context
                     ELSE IF c = "ok" THEN "closed" ELSE "close_error"
       /\ browser' = IF browser # "open" \/ (context = "open" /\ c # "ok") THEN browser
                     ELSE IF b = "ok" THEN "closed" ELSE "close_error"
  /\ pc' = "exited"
  /\ UNCHANGED <<loopVars, links_in, unique_chapter_links, exit_reason, chapterVars>>

\* lines 591-604: the finally block closes the context, then the browser
CloseSession ==
  /\ pc = "finally"
  /\ \E c \in CloseOutcomes, b \in CloseOutcomes :
       /\ context' = IF context # "open" THEN context
                     ELSE IF c = "ok" THEN "closed" ELSE "close_error"
       /\ browser' = IF browser # "open" THEN browser
                     ELSE IF b = "ok" THEN "closed" ELSE "close_error"
  /\ pc' = "exited"
  /\ UNCHANGED <<loopVars, links_in, unique_chapter_links, exit_reason, chapterVars>>

\* A signal arrives while main() runs.  No handler is installed and no
\* except clause of the program catches KeyboardInterrupt, so the run ends
\* where it is; inside the with block of lines 571-573 the file is closed
\* with what was written so far, the title.  KeyboardInterrupt runs the
\* finally block of line 591; a signal that ends the process does not
Cancel ==
  /\ pc # "exited"
  /\ \E signal \in {"interrupt", "kill"} :
       /\ context' = IF signal = "interrupt" /\ context = "open" THEN "closed" ELSE context
       /\ browser' = IF signal = "interrupt" /\ browser = "open" THEN "closed" ELSE browser
  /\ exit_reason' = "signal"
  /\ \E at \in IF pc = "save" /\ Opened(text_content, "ok") THEN {"save", "write"} ELSE {pc} :
       /\ cancelled_at' = at
       /\ files' = IF at = "write"
                   THEN [files EXCEPT ![i] = [exists |-> TRUE,
                           content |-> <<all_chapter_links[i].title, NL, NL>>]]
                   ELSE files
       /\ writes' = IF at = "write" THEN [writes EXCEPT ![i] = @ + 1] ELSE writes
       /\ partial' = IF at = "write" THEN partial \cup {i} ELSE partial
  /\ pc' = "exited"
  /\ text_content' = NoResult
  /\ UNCHANGED failed
  /\ all_text_parts' = <<>>
  /\ page_num' = 1
  /\ chapter_fetch_successful' = TRUE
  /\ img_counter' = 0
  /\ page_reload_count' = 0
  /\ page_fetch_successful' = FALSE
  /\ page_text_content' = <<>>
  /\ attempts' = 0 /\ reloads' = 0 /\ reload_failed' = FALSE
  /\ nMW' = 0 /\ nLF' = 0 /\ nTO' = 0
  /\ served' = <<>>
  /\ requests' = <<>>
  /\ saved' = <<>>
  /\ end_reason' = "none"
  /\ UNCHANGED <<site, discovery, image_host, other_pc, other_i, run, i, image_files, fetched,
                 acquirers, handled, slept, files_before, links_in, unique_chapter_links>>
  /\ overlay' = "pending" /\ warned' = FALSE /\ seen' = "none"
  /\ earlier_reloads' = 0

\* lines 427-548: main() is invoked again over the same chapter list
NextRun ==
  /\ pc = "exited" /\ run < MaxRuns
  /\ run' = run + 1
  /\ cancelled_at' = "none"
  /\ i' = 1
  /\ fetched' = {}
  /\ UNCHANGED acquirers
  /\ handled' = <<>>
  /\ slept' = 0
  /\ files_before' = files
  /\ pc' = "start"
  /\ unique_chapter_links' = <<>>
  /\ browser' = "none" /\ context' = "none"
  /\ exit_reason' = "none"
  /\ UNCHANGED <<site, discovery, image_host, links_in, other_pc, other_i, files, writes, partial, image_files, text_content, failed, all_text_parts, page_num,
                 chapter_fetch_successful, img_counter, page_reload_count,
                 page_fetch_successful, page_text_content, pageHist, served,
                 requests, saved, end_reason>>
  /\ UNCHANGED <<attemptHist, earlier_reloads>>

\* ------------------------------------------------------ a second worker
\* A second main() over the same chapter list and output directory, with a
\* browser of its own, on the site of the end-to-end scenario.  Its steps are
\* the accesses to the shared directory.

firstWorkerVars == <<site, discovery, image_host, run, cancelled_at, pc, i, image_files, text_content, failed,
                     all_text_parts, page_num, chapter_fetch_successful, img_counter,
                     page_reload_count, page_fetch_successful, page_text_content,
                     pageHist, served, requests, saved, end_reason, fetched, handled,
                     slept, files_before, sessionVars, attemptHist, earlier_reloads>>

\* what get_chapter_content returns to the second worker
OtherResult ==
  ChapterResult(TRUE, AppendPart(AppendPart(<<>>, PageText("hello")), PageText("world")))

\* lines 549-562: the artifact exists, the second worker skips the chapter
OtherSkipChapter ==
  /\ other_pc = "loop" /\ other_i <= Len(all_chapter_links)
  /\ Exists(files[other_i])
  /\ other_i' = other_i + 1
  /\ UNCHANGED <<firstWorkerVars, other_pc, files, acquirers, writes, partial>>

\* lines 549-564: the artifact does not exist, the second worker calls
\* get_chapter_content
OtherStartChapter ==
  /\ other_pc = "loop" /\ other_i <= Len(all_chapter_links)
  /\ ~Exists(files[other_i])
  /\ acquirers' = [acquirers EXCEPT ![other_i] = @ \cup {"other"}]
  /\ other_pc' = "save"
  /\ UNCHANGED <<firstWorkerVars, other_i, files, writes, partial>>

\* lines 566-585: the second worker writes its chapter and goes on
OtherSaveChapter ==
  /\ other_pc = "save"
  /\ files' = [files EXCEPT ![other_i] =
                 SavedFile(files[other_i], all_chapter_links[other_i].title,
                           OtherResult, "ok")]
  /\ writes' = [writes EXCEPT ![other_i] = IF Opened(OtherResult, "ok") THEN @ + 1 ELSE @]
  /\ partial' = partial \ {other_i}
  /\ other_i' = other_i + 1
  /\ other_pc' = "loop"
  /\ UNCHANGED <<firstWorkerVars, acquirers>>

\* lines 587-606: the second worker has handled all chapters
OtherFinishRun ==
  /\ other_pc = "loop" /\ other_i > Len(all_chapter_links)
  /\ other_pc' = "exited"
  /\ UNCHANGED <<firstWorkerVars, other_i, files, acquirers, writes, partial>>

Next ==
  \/ DiscoverLinks \/ Deduplicate \/ LaunchBrowser \/ LoopRaises \/ CloseSession
  \/ DismissOverlays
  \/ SkipChapter \/ StartChapter \/ Goto \/ BeginPage \/ BeginAttempt
  \/ MobileWarningDetected \/ MobileWarningAbsent
  \/ ExtractRaises \/ ExtractLoadFailure \/ ExtractContent \/ ExtractEmpty
  \/ PageFailed \/ AppendPageText \/ FollowNextPage \/ EndOfChapter
  \/ ReturnChapter \/ SaveChapter \/ ChapterDelay \/ FinishRun \/ Cancel \/ NextRun
  \/ OtherSkipChapter \/ OtherStartChapter \/ OtherSaveChapter \/ OtherFinishRun

Spec == Init /\ [][Next]_vars

\* the deduplication alone, on every list of at most MaxLinks links
DedupNext == Deduplicate

DedupSpec == DedupInit /\ [][DedupNext]_vars

\* the fetch of the links alone, from every result of get_novel_info
DiscoveryNext == FetchPage \/ EndDiscovery \/ Deduplicate

DiscoverySpec == DiscoveryInit /\ [][DiscoveryNext]_vars

\* the program is sequential and never pauses for good between two steps
FairSpec == Spec /\ WF_vars(Next)

\* ================================================================ claims
InPage == pc \in {"attempt", "dismiss", "mobile", "extract", "page_end"}

Returned == pc \in {"save", "delay"}

\* the texts of the pages that ended in Success, in pagination order
ServedTexts == [k \in 1..Len(served) |-> PageText(served[k])]

AllServedNonEmpty == served # <<>> /\ \A k \in 1..Len(served) : Strip(ServedTexts[k]) # <<>>

\* C1: a page that shows the load-failure message on every attempt, every
\* reload succeeding, ends given up after exactly MAX_PAGE_RELOADS reloads
\* and MAX_PAGE_RELOADS + 1 attempts; no page ever gets a further attempt.
C1_LoadFailureBudget ==
  /\ attempts <= MAX_PAGE_RELOADS + 1
  /\ (pc = "page_end" /\ attempts >= 1 /\ nLF = attempts /\ nMW = 0 /\ nTO = 0)
       => /\ ~page_fetch_successful
          /\ reloads = MAX_PAGE_RELOADS
          /\ attempts = MAX_PAGE_RELOADS + 1

C1_Witness ==
  /\ pc = "page_end" /\ nLF = attempts /\ nMW = 0 /\ nTO = 0
  /\ attempts = MAX_PAGE_RELOADS + 1 /\ ~page_fetch_successful

\* C2: when a page of the chapter was given up, get_chapter_content returns
\* None and, once the chapter loop has handled the chapter, the chapter has
\* no text artifact, however many earlier pages were extracted.
C2_FailedNotPersisted ==
  (Returned /\ end_reason = "give_up")
     => /\ text_content.none
        /\ (pc = "delay" => ~files[i].exists)

C2_Witness == pc = "delay" /\ end_reason = "give_up" /\ Len(served) >= 1

\* C3 as stated: the second run fetches nothing and leaves every artifact
\* unchanged.
C3_SecondRunFetchesNothing == run >= 2 => (fetched = {} /\ files = files_before)

\* C3 amended: a run never fetches a chapter whose artifact existed when the
\* run started, and (no other worker writing) leaves that artifact
\* unchanged; when all artifacts existed, the run fetches nothing.
C3_ExistingSkipped ==
  /\ \A c \in 1..NumChapters :
       files_before[c].exists
         => (c \notin fetched /\ (other_pc = "off" => files[c] = files_before[c]))
  /\ (\A c \in 1..NumChapters : files_before[c].exists) => fetched = {}

C3_Witness ==
  /\ run >= 2 /\ pc = "exited" /\ fetched = {}
  /\ \A c \in 1..NumChapters : files_before[c].exists /\ files[c] = files_before[c]

\* C4: on the site of the end-to-end scenario the chapter is returned with
\* body "Hello\n\nWorld" after 2 pages and is written; page 1 is reloaded
\* exactly once and page 2 never.
C4_EndToEnd ==
  site = "e2e" =>
    /\ Returned => /\ text_content = [none |-> FALSE, text |-> <<"Hello", NL, NL, "World">>]
                   /\ page_num = 2
                   /\ end_reason = "hidden"
    /\ (pc = "page_end" /\ page_num = 1) => (reloads = 1 /\ page_reload_count = 1)
    /\ page_num = 2 => reloads = 0
    /\ pc = "delay" =>
         files[i] = Artifact(all_chapter_links[i].title, <<"Hello", NL, NL, "World">>)

C4_Witness == site = "e2e" /\ pc = "delay" /\ files[i].exists /\ page_num = 2

\* C5 as stated: the body of a chapter whose pages all gave non-empty text
\* is the page texts joined by the blank-line separator.
C5_BodyIsJoin ==
  (Returned /\ ~text_content.none /\ AllServedNonEmpty)
     => text_content.text = Join(ServedTexts, <<NL, NL>>)

\* C5 amended: the body is the page texts in pagination order joined by the
\* blank-line separator, with the blanks at the two ends of the whole
\* removed; the page count is the number of pages; one page whose text has
\* no blank at its ends is returned as it is.
C5_BodyIsStrippedJoin ==
  (Returned /\ ~text_content.none /\ AllServedNonEmpty)
     => /\ text_content.text = Strip(Join(ServedTexts, <<NL, NL>>))
        /\ page_num = Len(served)
        /\ (Len(served) = 1 /\ Strip(ServedTexts[1]) = ServedTexts[1])
              => text_content.text = ServedTexts[1]

C5_Witness ==
  /\ Returned /\ ~text_content.none /\ Len(served) >= 2 /\ AllServedNonEmpty
  /\ ServedTexts[1] # ServedTexts[2]

\* C6: within one chapter no location is requested twice.
C6_OneDownloadPerLocation ==
  \A a, b \in 1..Len(requests) : requests[a] = requests[b] => a = b

\* C7: no download is attempted for a location with the placeholder
\* signature.
C7_PlaceholderNeverRequested ==
  \A k \in 1..Len(requests) : ~IsPlaceholder(requests[k])

\* C8: the counter of the page is the sum of the counted failures of all
\* causes; processing goes on only while it is within MAX_PAGE_RELOADS, the
\* page is given up when it exceeds it, and a page has at most
\* MAX_PAGE_RELOADS + 1 attempts.
C8_SharedBudget ==
  InPage =>
    /\ page_reload_count = nMW + nLF + nTO
    /\ attempts <= MAX_PAGE_RELOADS + 1
    /\ pc # "page_end" => page_reload_count <= MAX_PAGE_RELOADS
    /\ page_reload_count > MAX_PAGE_RELOADS => (pc = "page_end" /\ ~page_fetch_successful)

C8_Witness ==
  /\ pc = "page_end" /\ page_reload_count > MAX_PAGE_RELOADS
  /\ nMW >= 1 /\ nLF >= 1 /\ nTO >= 1

\* C9: the chapters are handled once each, in list order, and the run ends
\* only after the last one, whatever failed before.
C9_AllHandledInOrder ==
  /\ handled = [k \in 1..Len(handled) |-> k]
  /\ Len(handled) = i - 1
  /\ (pc = "exited" /\ ~EndedEarly) => Len(handled) = NumChapters

C9_Witness ==
  /\ pc = "exited" /\ exit_reason = "done" /\ run = 1 /\ Len(handled) = NumChapters
  /\ ~files[1].exists

\* C10: when the next-page control was visible and the click or the wait
\* for the navigation raised, the chapter is Failed and nothing is written.
C10_NoTruncatedChapter ==
  (Returned /\ end_reason \in {"click_error", "wait_error"})
     => /\ text_content.none
        /\ (pc = "delay" => ~files[i].exists)

\* C11: the acquisition of a chapter, once started, returns to main.
C11_AcquisitionTerminates == (pc = "goto") ~> (pc \in {"save", "exited"})

\* the locations lines 217-240 ask for, given the img elements of a page
RECURSIVE Wanted(_)
Wanted(imgs) ==
  IF imgs = <<>> THEN <<>>
  ELSE IF ChooseSource(Head(imgs)) = NoUrl THEN Wanted(Tail(imgs))
  ELSE <<UrlJoin(BASE_URL, ChooseSource(Head(imgs)))>> \o Wanted(Tail(imgs))

\* the parts lines 284-288 keep of the texts of the pages
NonBlank(texts) == SelectSeq(texts, LAMBDA t : Strip(t) # <<>>)

\* C12: whatever the image host answers, the attempt that processes the HTML
\* ends the page in success with the text of the page, asks for every image
\* of the page, leaves the retry counter and the chapter's flags alone; and
\* on the site with images the returned chapter depends on the page texts
\* only.
C12_ImageFailureIsLocal ==
  /\ [][(pc = "extract" /\ pc' = "page_end" /\ page_fetch_successful')
          => \E html \in {h \in HtmlRead : ~HtmlEmpty(h)} :
               /\ page_text_content' = PageText(html)
               /\ requests' = requests \o Wanted(FindAllImg(Nodes(html)))
               /\ page_reload_count' = page_reload_count
               /\ chapter_fetch_successful' = chapter_fetch_successful
               /\ all_text_parts' = all_text_parts]_vars
  /\ [](site = "images" /\ Returned
          => text_content =
               IF end_reason = "give_up" THEN NoResult
               ELSE [none |-> FALSE,
                     text |-> Strip(Join(NonBlank(ServedTexts), <<NL, NL>>))])

C12_Witness ==
  /\ pc = "page_end" /\ page_fetch_successful /\ ~DownloadImage(image_host)
  /\ Len(requests) >= 2 /\ saved = <<>> /\ page_reload_count = 0
  /\ page_text_content = <<"World">>

\* C18: every image file on disk was written from an answer whose declared
\* content type begins with image/.
C18_OnlyDeclaredImagesWritten == \A f \in image_files : f.ctype.type = "image"

\* C19: the images saved in a chapter carry the ordinals 0, 1, ..., k-1 in
\* this order, img_counter is their number, and each of them is on disk.
C19_OrdinalsDense ==
  /\ saved = [k \in 1..Len(saved) |-> k - 1]
  /\ img_counter = Len(saved)
  /\ \A k \in 1..Len(saved) :
       \E f \in image_files : f.name.ch = i /\ f.name.ord = k - 1 /\ f.whole

C19_Witness == Len(saved) >= 1 /\ Len(requests) > Len(saved) /\ ~DownloadImage(image_host)

\* C13: the next-page control is looked for only after the page ended in
\* success and its text was appended; a page is begun only by the goto
\* (page 1) or by a followed next-page control, which adds exactly 1 to
\* page_num (the count stops at MaxPages); page_num goes down only when the
\* chapter is over.
C13_PagesInOrder ==
  [][/\ (pc' = "next" /\ pc # "next")
          => /\ pc = "page_end" /\ page_fetch_successful /\ page_fetch_successful'
             /\ all_text_parts' = AppendPart(all_text_parts, page_text_content)
             /\ page_num' = page_num
     /\ (pc' = "page" /\ pc # "page")
          => \/ pc = "goto" /\ page_num' = 1 /\ all_text_parts' = <<>>
             \/ /\ pc = "next"
                /\ page_num' = IF page_num < MaxPages THEN page_num + 1 ELSE page_num
                /\ all_text_parts' = all_text_parts
     /\ page_num' # page_num
          => \/ pc = "next" /\ pc' = "page" /\ page_num' = page_num + 1
             \/ pc = "delay" /\ pc' = "loop" /\ page_num' = 1
             \/ pc' = "exited" /\ cancelled_at' # "none" /\ page_num' = 1]_vars

C13_Witness ==
  pc = "page" /\ page_num = 2 /\ Len(served) = 1 /\ all_text_parts = <<PageText(served[1])>>

\* C14: for every chapter at most one worker calls get_chapter_content and
\* the artifact is opened for writing at most once.
C14_AtomicClaim ==
  \A c \in 1..NumChapters : Cardinality(acquirers[c]) <= 1 /\ writes[c] <= 1

\* C15: a signal ends the run only between two chapters, and a cancelled
\* run leaves no unfinished artifact.
C15_CancelAtBoundary ==
  /\ cancelled_at \in {"none", "loop", "delay"}
  /\ (cancelled_at # "none" /\ site # "flaky") => partial = {}

\* every page of the finished walk ended in success and none gave text
WalkedWithoutText ==
  /\ Returned /\ end_reason \notin {"give_up", "goto_error"}
  /\ served # <<>> /\ \A k \in 1..Len(served) : Strip(ServedTexts[k]) = <<>>

\* C16: a chapter whose pages all ended in success without text is returned
\* as the empty text, not None; its artifact holds the title line only
\* (unless the file cannot be opened); a run started with that artifact on
\* disk does not fetch the chapter.
C16_EmptyChapterIsComplete ==
  /\ WalkedWithoutText => text_content = [none |-> FALSE, text |-> <<>>]
  /\ (WalkedWithoutText /\ pc = "delay")
       => \/ files[i] = [exists |-> TRUE, content |-> <<all_chapter_links[i].title, NL, NL>>]
          \/ site = "flaky" /\ ~files[i].exists
  /\ \A c \in 1..NumChapters :
       files_before[c] = Artifact(all_chapter_links[c].title, <<>>) => c \notin fetched

C16_Witness ==
  /\ WalkedWithoutText /\ pc = "delay" /\ Len(served) = 2
  /\ files[i] = Artifact(all_chapter_links[i].title, <<>>)

\* C17: a chapter whose acquisition returned None has no artifact; the main
\* loop leaves such a chapter only by calling get_chapter_content (or by a
\* signal), and every acquisition starts at page 1 with no parts, image
\* ordinal 0 and, on each page, a retry counter of 0.
C17_FailedIsRetried ==
  /\ [](\A c \in failed : ~files[c].exists)
  /\ [](pc = "goto" => page_num = 1 /\ img_counter = 0 /\ all_text_parts = <<>>)
  /\ []((pc = "attempt" /\ attempts = 0) => page_reload_count = 0)
  /\ [][(pc = "loop" /\ i \in failed /\ pc' # "loop")
          => \/ pc' = "goto" /\ i \in fetched' /\ i' = i
             \/ pc' = "exited" /\ cancelled_at' = "loop"
             \/ pc' = "finally" /\ exit_reason' = "loop_error"]_vars

C17_Witness == run = 2 /\ pc = "goto" /\ i \in failed /\ cancelled_at = "none" /\ fetched = {i}

\* C20: the chapter loop goes from a chapter it acquired to the next one
\* only through the delay, which lasts at least MIN_CHAPTER_DELAY seconds;
\* after the acquisition returned, the only way on is the save and then the
\* delay (or the end of the run by a signal).
C20_DelayAfterAcquisition ==
  [][/\ (pc \notin {"loop", "launch"} /\ pc' = "loop")
          => pc = "delay" /\ slept' >= MIN_CHAPTER_DELAY /\ i' = i + 1
     /\ (i' # i /\ pc # "exited")
          => \/ pc = "delay" /\ pc' = "loop" /\ slept' >= MIN_CHAPTER_DELAY
             \/ pc = "loop" /\ Exists(files[i]) /\ i \notin fetched
     /\ (pc = "save" /\ pc' # "save") => pc' \in {"delay", "exited"}
     /\ (pc = "delay" /\ pc' # "delay") => pc' \in {"loop", "exited"}]_vars

C20_Witness == pc = "loop" /\ i = 2 /\ slept >= MIN_CHAPTER_DELAY /\ 1 \in failed

\* the places of a list of links where a url occurs for the first time
FirstOccurrences(links) ==
  {k \in 1..Len(links) : \A j \in 1..(k - 1) : links[j].url # links[k].url}

\* C21: the deduplicated list holds each url once; its n-th entry is the
\* record of the n-th first occurrence of a url in the fetched list, so the
\* first record of a url is kept and the order of the first occurrences is
\* preserved; the chapters are numbered 1, 2, ... over the deduplicated list.
C21_DedupKeepsFirst ==
  pc = "launch" =>
    LET u == unique_chapter_links
        F == FirstOccurrences(links_in)
    IN /\ Len(u) = Cardinality(F)
       /\ \A a, b \in 1..Len(u) : a # b => u[a].url # u[b].url
       /\ \A n \in 1..Len(u) :
            \E k \in F : /\ Cardinality({j \in F : j < k}) = n - 1
                         /\ u[n] = links_in[k]
       /\ ChapterNumbers(u) = [n \in 1..Cardinality(F) |-> n]

C21_Witness ==
  /\ pc = "launch" /\ Len(links_in) = 3 /\ Len(unique_chapter_links) = 2
  /\ links_in[1].url = links_in[3].url /\ links_in[1].title # links_in[3].title
  /\ unique_chapter_links[1] = links_in[1]

\* C22 as stated: a run that ends before it went through all chapters (and
\* not by a signal) ends because no chapter link was obtained or because
\* the browser session could not be established.
C22_OnlyTwoFatalConditions ==
  (pc = "exited" /\ exit_reason \notin {"done", "signal"})
     => exit_reason \in {"no_source", "no_links"} \cup NoSession

\* C22 amended: the run also ends early when the novel title is empty, when
\* the output directories cannot be created, and when an exception leaves the
\* chapter loop.  A return before the browser block leaves no browser
\* launched and no chapter fetched or written; without a session no chapter
\* is fetched.  The steps of a chapter (pages, images, the write) never end
\* the run: from the delay the loop goes on with the next chapter.
C22_FatalConditions ==
  /\ [](exit_reason \in BeforeLaunch
          => /\ pc = "exited" /\ browser = "none" /\ context = "none"
             /\ fetched = {} /\ handled = <<>>
             /\ (other_pc = "off" => files = files_before))
  /\ [](exit_reason \in NoSession => (fetched = {} /\ handled = <<>>))
  /\ [][/\ (pc' = "finally" /\ pc # "finally") => pc \in {"launch", "loop"}
        /\ (pc' = "exited" /\ pc # "exited" /\ exit_reason' # "signal")
             => pc \in {"start", "finally"}
        /\ (pc = "delay" /\ pc' # "delay" /\ exit_reason' # "signal")
             => (pc' = "loop" /\ i' = i + 1)]_vars

C22_Witness ==
  /\ pc = "exited" /\ exit_reason = "mkdir_error" /\ browser = "none"
  /\ run = 2 /\ failed # {}

\* C30: when main has returned (not ended by a signal) after the browser was
\* launched, whether the loop completed, an exception left it, or the
\* context or the page could not be created, neither the context nor the
\* browser is left open: each was closed or its close was tried; when the
\* close of the context failed the close of the browser was still tried.
C30_SessionClosed ==
  (pc = "exited" /\ exit_reason # "signal")
     => /\ browser # "open" /\ context # "open"
        /\ exit_reason \in {"done", "loop_error", "page_error"}
             => (browser \in {"closed", "close_error"} /\ context \in {"closed", "close_error"})
        /\ exit_reason = "context_error" => (browser \in {"closed", "close_error"} /\ context = "none")
        /\ context = "close_error" => browser \in {"closed", "close_error"}

C30_Witness ==
  /\ pc = "exited" /\ exit_reason = "loop_error"
  /\ context = "close_error" /\ browser = "closed"

\* C23: in an attempt that saw the mobile warning no content is accepted.
C23_WarnedNeverExtracts ==
  [][(pc = "extract" /\ warned) => ~page_fetch_successful']_vars

\* the HTML of this attempt was read, holds no load-failure message and
\* gives no text
SeenWithoutText ==
  /\ pc = "page_end" /\ seen # "none"
  /\ IF seen = None THEN TRUE
     ELSE ~HasLoadFailure(seen) /\ Strip(PageText(seen)) = <<>>

\* C24 as stated: a page whose HTML gives no text, empty or not, is given up.
C24_NoTextIsGivenUp == SeenWithoutText => ~page_fetch_successful

\* C24 amended: when the HTML read is empty or blank the page is given up in
\* that attempt, the counter and the reloads stay as they were, and the
\* chapter fails; when the HTML is not empty and holds no text the page ends
\* in success with an empty text.
C24_EmptyHtmlIsGivenUp ==
  /\ []((SeenWithoutText /\ HtmlEmpty(seen)) => ~page_fetch_successful)
  /\ []((SeenWithoutText /\ ~HtmlEmpty(seen))
          => (page_fetch_successful /\ Strip(page_text_content) = <<>>))
  /\ [][/\ (pc = "extract" /\ seen' # "none" /\ HtmlEmpty(seen'))
             => /\ pc' = "page_end"
                /\ page_reload_count' = page_reload_count
                /\ reloads' = reloads /\ attempts' = attempts
        /\ (SeenWithoutText /\ HtmlEmpty(seen) /\ pc' # "page_end")
             => \/ pc' = "return" /\ ~chapter_fetch_successful' /\ end_reason' = "give_up"
                \/ pc' = "exited" /\ exit_reason' = "signal"]_vars

C24_Witness ==
  /\ SeenWithoutText /\ HtmlEmpty(seen) /\ ~page_fetch_successful
  /\ attempts = 1 /\ page_reload_count = 0 /\ reloads = 0

\* C25: after a timeout or an error of the extraction, with budget left,
\* the page is reloaded before the next attempt.
C25_TimeoutReloads ==
  [][(pc = "extract" /\ nTO' = nTO + 1 /\ nLF' = nLF /\ pc' = "attempt")
        => reloads' = reloads + 1]_vars

\* C26: every page starts with the counter at 0, whatever the page or the
\* chapter before it used, and within a page the reloads never outnumber
\* the counted failures of that page.
C26_CounterResetPerPage ==
  /\ []((pc = "attempt" /\ attempts = 0) => page_reload_count = 0)
  /\ []((InPage /\ attempts = 1 /\ pc \in {"dismiss", "mobile"}) => page_reload_count = 0)
  /\ [](InPage => reloads <= nMW + nLF + nTO)
  /\ [][(pc = "page" /\ pc' = "attempt") => page_reload_count' = 0]_vars

C26_Witness ==
  /\ pc = "page_end" /\ page_num = 2 /\ page_fetch_successful
  /\ earlier_reloads = MAX_PAGE_RELOADS /\ reloads = MAX_PAGE_RELOADS

\* C27: every attempt starts with the dismissal of overlays, the mobile
\* check comes after it and the extraction after the mobile check; however
\* the dismissal ends, the counter, the reloads and the attempt stay as they
\* were and the mobile check follows.
C27_DismissalFirst ==
  /\ [](pc \in {"mobile", "extract"} => overlay \in OverlayOutcomes)
  /\ [][/\ (pc = "attempt" /\ pc' \notin {"attempt", "exited"}) => pc' = "dismiss"
        /\ (pc' = "mobile" /\ pc # "mobile") => pc = "dismiss"
        /\ (pc' = "extract" /\ pc # "extract") => pc = "mobile"
        /\ (pc = "dismiss" /\ pc' \notin {"dismiss", "exited"})
             => /\ pc' = "mobile"
                /\ page_reload_count' = page_reload_count
                /\ attempts' = attempts /\ reloads' = reloads]_vars

C27_Witness ==
  /\ pc = "extract" /\ overlay = "error" /\ ~warned
  /\ attempts = 1 /\ page_reload_count = 0

\* C28: no step counts more than one failure, an attempt that counted the
\* mobile warning counts nothing more, and a page is reloaded at most
\* MAX_PAGE_RELOADS times.
C28_OneIncrementPerAttempt ==
  /\ [](reloads <= MAX_PAGE_RELOADS)
  /\ [][InPage => /\ page_reload_count' <= page_reload_count + 1
                  /\ (warned => page_reload_count' <= page_reload_count)]_vars

\* C29: in the first run, at a chapter boundary, no artifact on disk is
\* a partial file.
C29_ArtifactsComplete ==
  (run = 1 /\ pc = "loop" /\ other_pc = "off")
     => \A c \in 1..NumChapters : files[c].exists => c \notin partial

\* C31: the HTML of every page that ended in success is free of the
\* load-failure message, so are the text of each page, the stitched text
\* and the body of every artifact; a text that held the message would leave
\* the file as it was and the chapter would be fetched by the next run.
C31_NoLoadFailureInArtifact ==
  /\ [](\A k \in 1..Len(served) :
          ~Contains(GetText(Nodes(served[k])), LOAD_FAILURE_TEXT))
  /\ []((pc = "page_end" /\ page_fetch_successful)
          => ~Contains(page_text_content, LOAD_FAILURE_TEXT))
  /\ [](\A k \in 1..Len(all_text_parts) :
          ~Contains(all_text_parts[k], LOAD_FAILURE_TEXT))
  /\ [](~Contains(text_content.text, LOAD_FAILURE_TEXT))
  /\ [](\A c \in 1..NumChapters :
          files[c].exists => ~Contains(files[c].content, LOAD_FAILURE_TEXT))
  /\ [][(pc = "save" /\ pc' = "delay" /\ Contains(text_content.text, LOAD_FAILURE_TEXT))
          => files' = files]_vars

C31_Witness ==
  /\ pc = "page_end" /\ nLF >= 1 /\ page_fetch_successful
  /\ page_text_content = <<"Hello">>

\* the names of the image files on disk
ImageNames(fs) == {f.name : f \in fs}

\* C32: no step removes an image file; only the processing of a page
\* writes image files, and the end of a chapter, failed or not, leaves them
\* as they are; every acquisition of a chapter starts with ordinal 0, also
\* when files of an earlier failed acquisition are on disk, and the names it
\* writes are the chapter's prefix with the ordinals from img_counter on.
C32_ImagesStayAfterFailure ==
  /\ [](pc = "goto" => img_counter = 0)
  /\ [][/\ ImageNames(image_files) \subseteq ImageNames(image_files')
        /\ pc # "extract" => image_files' = image_files
        /\ \A f \in image_files' \ image_files :
             f.name.ch = i /\ f.name.ord \in img_counter..img_counter']_vars

C32_Witness ==
  /\ run = 2 /\ pc = "goto" /\ i \in failed /\ ~files[i].exists
  /\ img_counter = 0
  /\ \E f \in image_files : f.name = [ch |-> i, ord |-> 0, ext |-> ".jpg"] /\ f.whole

\* the discovery is over
Discovered == pc \in {"dedup", "launch", "exited"}

\* C33: no page is requested more than MAX_RETRIES + 1 times, and never
\* again after it was fetched; a page is given up only after a request
\* failed; when the discovery is over every page was requested, the links
\* are those of the fetched pages in page order, so a volume that could not
\* be fetched is passed over and the later ones are kept; the chapters are
\* numbered from 1 over the deduplicated list; main returns only when no link
\* was collected.
C33_DiscoveryRetries ==
  /\ [](\A k \in 1..Pages(discovery) :
          /\ discovery.requests[k] <= MAX_RETRIES + 1
          /\ k \in discovery.skipped => discovery.requests[k] >= 1
          /\ Discovered => discovery.requests[k] >= 1)
  /\ [](discovery.got \cap discovery.skipped = {})
  /\ [](Discovered
          => /\ discovery.got \cup discovery.empty \cup discovery.skipped
                  = 1..Pages(discovery)
             /\ links_in = LinksOf(discovery.catalog_url, discovery.got, Pages(discovery)))
  /\ [](pc = "launch"
          => /\ links_in # <<>>
             /\ unique_chapter_links = Dedup(links_in)
             /\ ChapterNumbers(unique_chapter_links) = [n \in 1..Len(unique_chapter_links) |-> n])
  /\ [](pc = "exited" => (links_in = <<>> /\ exit_reason \in {"no_source", "no_links"}))
  /\ [][\A k \in discovery.got \cup discovery.empty :
          discovery'.requests[k] = discovery.requests[k]]_vars

C33_Witness ==
  /\ pc = "launch" /\ discovery.volume_links = 2
  /\ discovery.skipped = {1} /\ discovery.requests[1] = MAX_RETRIES + 1
  /\ unique_chapter_links = <<[title |-> "Title2", url |-> 2]>>
  /\ ChapterNumbers(unique_chapter_links) = <<1>>

====
